---- MODULE Spec2Model ----
(***************************************************************************)
(* Model of the two-stage pipeline of sa_corruption_pipeline:              *)
(*   tavily_ingestion_lambda.py  searches and writes one batch file to S3  *)
(*   tavily_loader_lambda.py     lists the batch files and upserts their   *)
(*                               records into an Aurora/Postgres table     *)
(* Text is modelled as a sequence of character codes so that Python's and  *)
(* S3's lexicographic order, split('/') and re.sub are computed, not       *)
(* assumed.                                                                *)
(***************************************************************************)
EXTENDS Integers, Sequences, FiniteSets, TLC

(***************************************************************************)
(* Bounds of the model.                                                    *)
(***************************************************************************)
\* calendar days 2024-01-01 .. 2024-01-0<MaxDay> on the ingestion clock
MaxDay == 2
\* ingestion invocations in one behaviour
MaxIngests == 2
\* loader invocations started in one behaviour
MaxRuns == 2
\* keys per list_objects_v2 page (S3 returns at most 1000; scaled down)
PageSize == 1

\* loader invocations that may overlap
Invs == {1, 2}

(***************************************************************************)
(* Text.                                                                   *)
(***************************************************************************)
\* "tavily_search_results/"
S3_PREFIX ==
  <<116,97,118,105,108,121,95,115,101,97,114,99,104,95,114,101,115,117,108,116,115,47>>

\* the text Python's f-string gives for None
NoneText == <<78,111,110,101>>

\* Python None / SQL NULL for a text value (no modelled text is empty
\* except where the code itself produces "")
NoText == <<>>

Slash == <<47>>

\* the individuals of the model: "A B" and "z"
Names == { <<65,32,66>>, <<122>> }

Days == 1..MaxDay

\* a <= b in code-point order (Python str comparison, S3 key order)
RECURSIVE StrLeq(_, _)
StrLeq(a, b) ==
  IF a = <<>> THEN TRUE
  ELSE IF b = <<>> THEN FALSE
  ELSE IF a[1] < b[1] THEN TRUE
  ELSE IF a[1] > b[1] THEN FALSE
  ELSE StrLeq(Tail(a), Tail(b))

StrLess(a, b) == a # b /\ StrLeq(a, b)

startswith(s, p) == Len(p) <= Len(s) /\ SubSeq(s, 1, Len(p)) = p

\* str.split(sep) for a one-character separator
RECURSIVE SplitFrom(_, _, _)
SplitFrom(s, c, cur) ==
  IF s = <<>> THEN <<cur>>
  ELSE IF s[1] = c THEN <<cur>> \o SplitFrom(Tail(s), c, <<>>)
  ELSE SplitFrom(Tail(s), c, Append(cur, s[1]))

split(s, c) == SplitFrom(s, c, <<>>)

IsAlnum(c) == (c >= 48 /\ c <= 57) \/ (c >= 65 /\ c <= 90) \/ (c >= 97 /\ c <= 122)

\* re.sub(r'[^a-zA-Z0-9]', '_', individual)
safe_individual(individual) ==
  [k \in 1..Len(individual) |->
     IF IsAlnum(individual[k]) THEN individual[k] ELSE 95]

\* " ".join(name.split("_")), applied when "_" is in name
underscores_to_spaces(name) ==
  [k \in 1..Len(name) |-> IF name[k] = 95 THEN 32 ELSE name[k]]

\* strftime("%Y%m%d") of day d of January 2024
DateStr(d) == <<50,48,50,52,48,49,48, 48 + d>>

\* strftime("%Y%m%d_%H%M%S"); the time of day is midnight in the model
TimestampStr(d) == DateStr(d) \o <<95,48,48,48,48,48,48>>

\* f"{x}" of a value that may be None
FormatOpt(x) == IF x = NoText THEN NoneText ELSE x

\* the ascending sequence of a finite set of keys
RECURSIVE SortKeys(_)
SortKeys(S) ==
  IF S = {} THEN <<>>
  ELSE LET m == CHOOSE x \in S : \A y \in S : StrLeq(x, y)
       IN  <<m>> \o SortKeys(S \ {m})

Range(s) == { s[k] : k \in DOMAIN s }

(***************************************************************************)
(* Ingestion stage: tavily_ingestion_lambda.py                             *)
(***************************************************************************)
NULL == "NULL"

\* result items the search provider may return; title, content and score
\* of one item are tied to its version
Item(u, v, pd) == [url |-> u, ver |-> v, published_date |-> pd]

\* the result lists of the model: one article; a later version of it with a
\* second article; an item without url followed by a good one; a good one
\* followed by an item without url
ResultLists ==
  { << Item("u1", 1, "absent") >>,
    << Item("u1", 2, "valid"), Item("u2", 1, "bad") >>,
    << Item("", 1, "absent"), Item("u2", 2, "valid") >>,
    << Item("u2", 1, "valid"), Item("", 2, "absent") >> }

\* the ingestion events of the model: name and keywords
IngestEvents ==
  { [name |-> <<65,32,66>>, keywords |-> <<"graft">>],
    [name |-> <<122>>, keywords |-> <<"fraud">>] }

\* stands for a keywords value that is not a list, such as a string
NotAList == <<"not a list">>

\* the events an ingestion invocation may get: those, one without a name,
\* and one whose keywords are not a list
AllIngestEvents ==
  IngestEvents
    \cup { [name |-> <<>>, keywords |-> <<"graft">>],
           [name |-> <<122>>, keywords |-> NotAList] }

Title(ver) == IF ver = 1 THEN "t1" ELSE "t2"

Content(ver) == IF ver = 1 THEN "c1" ELSE "c2"

extract_domain(url) == IF url = "" THEN NULL ELSE "news24.com"

\* published_date as stored in the batch file: the parsed provider date,
\* None when the string does not parse, searched_at when it is absent
process_content(result_item, searched_at, individual, keywords) ==
  [ url |-> result_item.url,
    title |-> Title(result_item.ver),
    content |-> Content(result_item.ver),
    source |-> extract_domain(result_item.url),
    published_date |->
      IF result_item.published_date = "absent" THEN searched_at
      ELSE IF result_item.published_date = "valid" THEN 1
      ELSE 0,
    searched_at |-> searched_at,
    individuals_mentioned |-> IF individual # NoText THEN <<individual>> ELSE <<>>,
    keywords_used |-> keywords,
    score |-> result_item.ver ]

\* the key save_to_s3 writes
save_to_s3_key(timestamp, individual) ==
  S3_PREFIX \o safe_individual(individual) \o Slash \o DateStr(timestamp)
    \o Slash \o TimestampStr(timestamp) \o <<46,106,115,111,110>>

(***************************************************************************)
(* State.                                                                  *)
(***************************************************************************)
VARIABLES
  bucket,          \* the batch store: key -> list of records (the JSON body)
  now,             \* the day datetime.utcnow() falls on
  ingests,         \* ingestion invocations so far
  table,           \* the rows of TABLE_NAME
  seq_id,          \* the next value of the id column's sequence
  scanned_at_col,  \* whether the table found in the database has a scanned_at column
  inv,             \* per loader invocation: its position and locals
  runs,            \* loader invocations started so far
  once,            \* what a first load of a file left, kept for a second load
  TAVILY_API_KEY,  \* whether the ingestion stage's environment sets the API key
  response         \* what the last ingestion invocation returned and did

vars == <<bucket, now, ingests, table, seq_id, scanned_at_col, inv, runs, once,
          TAVILY_API_KEY, response>>

NotLoaded == [rows |-> {}, count |-> 0, loaded |-> FALSE, failed |-> {}]

Put(bkt, key, body) ==
  [k \in DOMAIN bkt \cup {key} |-> IF k = key THEN body ELSE bkt[k]]

EmptyBucket == [k \in {} |-> <<>>]

\* what an ingestion invocation returns, whether its event had a name,
\* whether it called the search provider and whether it put a batch file
Response(status, named, searched, wrote) ==
  [status |-> status, named |-> named, searched |-> searched, wrote |-> wrote]

NoResponse == Response(0, FALSE, FALSE, FALSE)

\* tavily_ingestion_lambda.lambda_handler: 400 without a name or with
\* keywords that are not a list, 500 without the API key or when the search
\* raises, else 200; a batch file is put under save_to_s3's key when the
\* result list is not empty and put_object does not fail (save_to_s3
\* catches the failure and the handler returns 200 all the same)
IngestFrom(events) ==
  /\ ingests < MaxIngests
  /\ \E event \in events :
       LET individual == event.name
           keywords == event.keywords
           searched_at == now
       IN  IF individual = NoText
           THEN /\ response' = Response(400, FALSE, FALSE, FALSE)
                /\ UNCHANGED bucket
           ELSE IF keywords = NotAList
           THEN /\ response' = Response(400, TRUE, FALSE, FALSE)
                /\ UNCHANGED bucket
           ELSE IF ~TAVILY_API_KEY
           THEN /\ response' = Response(500, TRUE, FALSE, FALSE)
                /\ UNCHANGED bucket
           ELSE \/ /\ response' = Response(500, TRUE, TRUE, FALSE)
                   /\ UNCHANGED bucket
                \/ \E results \in ResultLists \cup {<<>>}, put_ok \in BOOLEAN :
                     LET processed_items ==
                           [k \in 1..Len(results) |->
                              process_content(results[k], searched_at, individual, keywords)]
                     IN  IF processed_items # <<>> /\ put_ok
                         THEN /\ bucket' = Put(bucket,
                                               save_to_s3_key(searched_at, individual),
                                               processed_items)
                              /\ response' = Response(200, TRUE, TRUE, TRUE)
                         ELSE /\ response' = Response(200, TRUE, TRUE, FALSE)
                              /\ UNCHANGED bucket
  /\ ingests' = ingests + 1
  /\ UNCHANGED <<now, table, seq_id, scanned_at_col, TAVILY_API_KEY, inv, runs, once>>

\* an ingestion invocation with one of the events of the model
Ingest == IngestFrom(AllIngestEvents)

\* time passes between invocations
Tick ==
  /\ now < MaxDay
  /\ now' = now + 1
  /\ UNCHANGED <<bucket, ingests, table, seq_id, scanned_at_col, TAVILY_API_KEY, response, inv, runs, once>>

(***************************************************************************)
(* Loader stage: tavily_loader_lambda.py                                   *)
(***************************************************************************)
\* a NOT NULL column of ensure_table_exists's schema would receive NULL
NotNullViolation(rec) == rec.url = NULL \/ rec.title = NULL \/ rec.source = NULL

\* insert_into_db with the conflict detected on (url, title) instead of url
insert_into_db_conflict_on_url_and_title(tbl, rec, id) ==
  IF \E r \in tbl : r.url = rec.url /\ r.title = rec.title
  THEN { IF r.url = rec.url /\ r.title = rec.title
         THEN [r EXCEPT !.searched_at = rec.searched_at,
                        !.content = rec.content,
                        !.individuals_mentioned = rec.individuals_mentioned,
                        !.keywords_used = rec.keywords_used,
                        !.score = rec.score,
                        !.source = rec.source]
         ELSE r : r \in tbl }
  ELSE tbl \cup { [ id |-> id,
                    url |-> rec.url,
                    title |-> rec.title,
                    content |-> rec.content,
                    source |-> rec.source,
                    published_date |-> rec.published_date,
                    searched_at |-> rec.searched_at,
                    individuals_mentioned |-> rec.individuals_mentioned,
                    keywords_used |-> rec.keywords_used,
                    score |-> rec.score,
                    scanned_at |-> 0 ] }

\* insert_into_db as a plain INSERT into a table without UNIQUE(url)
insert_into_db_plain_insert(tbl, rec, id) ==
  tbl \cup { [ id |-> id,
               url |-> rec.url,
               title |-> rec.title,
               content |-> rec.content,
               source |-> rec.source,
               published_date |-> rec.published_date,
               searched_at |-> rec.searched_at,
               individuals_mentioned |-> rec.individuals_mentioned,
               keywords_used |-> rec.keywords_used,
               score |-> rec.score,
               scanned_at |-> 0 ] }

\* a variant of insert_into_db that replaces the row of the url (delete,
\* then insert) instead of updating six of its columns
insert_into_db_replace(tbl, rec, id) ==
  { r \in tbl : r.url # rec.url }
    \cup { [ url |-> rec.url, published_date |-> rec.published_date,
             searched_at |-> rec.searched_at, title |-> rec.title,
             content |-> rec.content, source |-> rec.source,
             individuals_mentioned |-> rec.individuals_mentioned,
             keywords_used |-> rec.keywords_used, score |-> rec.score,
             id |-> id, scanned_at |-> 0 ] }

\* a variant of insert_into_db whose DO UPDATE appends the incoming names to
\* the row's individuals_mentioned array instead of replacing the array
insert_into_db_append_mentions(tbl, rec, id) ==
  IF \E r \in tbl : r.url = rec.url
  THEN { IF r.url = rec.url
         THEN [r EXCEPT !.searched_at = rec.searched_at,
                        !.content = rec.content,
                        !.individuals_mentioned = @ \o rec.individuals_mentioned,
                        !.keywords_used = rec.keywords_used,
                        !.score = rec.score,
                        !.source = rec.source]
         ELSE r : r \in tbl }
  ELSE tbl \cup { [ url |-> rec.url, published_date |-> rec.published_date,
                    searched_at |-> rec.searched_at, title |-> rec.title,
                    content |-> rec.content, source |-> rec.source,
                    individuals_mentioned |-> rec.individuals_mentioned,
                    keywords_used |-> rec.keywords_used, score |-> rec.score,
                    id |-> id, scanned_at |-> 0 ] }

\* INSERT ... ON CONFLICT (url) DO UPDATE SET ...: the table after the
\* statement; id is the value drawn from the id sequence for the new row
insert_into_db(tbl, rec, id) ==
  IF \E r \in tbl : r.url = rec.url
  THEN { IF r.url = rec.url
         THEN [r EXCEPT !.searched_at = rec.searched_at,
                        !.content = rec.content,
                        !.individuals_mentioned = rec.individuals_mentioned,
                        !.keywords_used = rec.keywords_used,
                        !.score = rec.score,
                        !.source = rec.source]
         ELSE r : r \in tbl }
  ELSE tbl \cup { [ id |-> id,
                    url |-> rec.url,
                    title |-> rec.title,
                    content |-> rec.content,
                    source |-> rec.source,
                    published_date |-> rec.published_date,
                    searched_at |-> rec.searched_at,
                    individuals_mentioned |-> rec.individuals_mentioned,
                    keywords_used |-> rec.keywords_used,
                    score |-> rec.score,
                    scanned_at |-> 0 ] }

\* individuals_mentioned @> ARRAY[individual]
Mentions(r, individual) == individual \in Range(r.individuals_mentioned)

MaxOf(S) == CHOOSE m \in S : \A y \in S : y <= m

\* get_latest_s3_key with the query over searched_at, the column the loader
\* writes
get_latest_s3_key_over_searched_at(tbl, individual, hasCol) ==
  LET vals == { r.searched_at : r \in { q \in tbl : Mentions(q, individual) } } \ {0}
  IN  IF vals = {} THEN NoText ELSE DateStr(MaxOf(vals))

\* whether the watermark query raises: it names the column scanned_at
QueryRaises(hasCol) == ~hasCol

\* what get_latest_s3_key returns: strftime("%Y%m%d") of MAX(scanned_at)
\* over the rows mentioning individual, None (NoText) when the query
\* raises, finds no row or finds only NULLs (0 stands for NULL)
get_latest_s3_key(tbl, individual, hasCol) ==
  LET vals == { r.scanned_at : r \in { q \in tbl : Mentions(q, individual) } } \ {0}
  IN  IF QueryRaises(hasCol) \/ vals = {} THEN NoText
      ELSE DateStr(MaxOf(vals))

\* line 214: last_key = f"{name}/{last_key}/"
BoundaryKey(name, last) == name \o Slash \o FormatOpt(last) \o Slash

\* one list_objects_v2 page: the keys under Prefix after StartAfter (or
\* after the previous page's last key), ascending, at most PageSize
ListAfter(keys, after) ==
  SortKeys({ k \in keys : startswith(k, S3_PREFIX) /\ (after = NoText \/ StrLess(after, k)) })

FirstN(s, n) == SubSeq(s, 1, IF Len(s) < n THEN Len(s) ELSE n)

\* the keys fetch_new_files yields out of one page
YieldFrom(page, last_key) ==
  SelectSeq(page, LAMBDA key : ~(last_key # NoText /\ StrLeq(key, last_key)))

\* '+' decodes to a space (the keys of the model hold no '%')
unquote_plus(s) == [k \in 1..Len(s) |-> IF s[k] = 43 THEN 32 ELSE s[k]]

\* lines 168-194: the name the handler works with, NoText when there is none
EventName(event) ==
  LET key1 == IF event.key = NoText /\ event.detail # NoText THEN event.detail ELSE event.key
      key2 == IF key1 = NoText /\ event.records # NoText
              THEN unquote_plus(event.records) ELSE key1
      parts == split(key2, 47)
      name1 == IF key2 # NoText /\ Len(parts) >= 3 THEN parts[2] ELSE event.name
  IN  IF name1 # NoText /\ 95 \in Range(name1) THEN underscores_to_spaces(name1) ELSE name1

Event(n, k, d, r) == [name |-> n, key |-> k, detail |-> d, records |-> r]

\* the events of the model: a name, a key, either S3 event shape, nothing,
\* or a key "x/y" of fewer than three segments
Events(bkt) ==
  { Event(n, NoText, NoText, NoText) : n \in Names }
    \cup { Event(NoText, k, NoText, NoText) : k \in DOMAIN bkt }
    \cup { Event(NoText, NoText, k, NoText) : k \in DOMAIN bkt }
    \cup { Event(NoText, NoText, NoText, k) : k \in DOMAIN bkt }
    \cup { Event(NoText, NoText, NoText, NoText),
           Event(NoText, <<120, 47, 121>>, NoText, NoText) }

Idle ==
  [ pc |-> "idle", name |-> NoText, conn |-> "none", tx |-> "idle",
    wm |-> NoText, last_key |-> NoText, after |-> NoText,
    page |-> <<>>, truncated |-> FALSE,
    key |-> NoText, valid |-> FALSE, recs |-> <<>>,
    merged |-> {}, counted |-> {}, failed |-> {},
    processed_count |-> 0, status |-> 0 ]

\* what the per-file except logs: the key, the error (the object could not
\* be read or parsed; the transaction was already aborted; a NOT NULL
\* column got NULL) and whether every record of the file could be stored
AllStorable(data) == \A k \in DOMAIN data : ~NotNullViolation(data[k])

Failure(key, why, valid) == [key |-> key, why |-> why, valid |-> valid]

\* where the handler's for loop goes once a file is finished or given up:
\* the next key of the page, the next page, or the return statement
NextPc(rest, truncated) ==
  IF rest # <<>> THEN "file" ELSE IF truncated THEN "list" ELSE "ret"

\* a variant of the error exit in which the connection is closed only on
\* the path that returns 200
Terminal_without_finally(rec) ==
  [rec EXCEPT !.pc = "done", !.status = 500]

\* lines 249-257: the outer except returns 500 and finally closes the
\* connection if one was opened
Terminal(rec) ==
  [rec EXCEPT !.pc = "done", !.status = 500,
              !.conn = IF rec.conn = "none" THEN "none" ELSE "closed"]

\* a variant of the handler that connects and creates the table before it
\* looks at the name
Start_connects_first(i) ==
  /\ inv[i].pc \in {"idle", "done"}
  /\ \A j \in Invs : j < i => inv[j].pc \notin {"idle", "done"}
  /\ runs < MaxRuns
  /\ \E event \in Events(bucket) :
       LET name == EventName(event)
       IN  inv' = [inv EXCEPT ![i] =
                     IF name = NoText
                     THEN [Idle EXCEPT !.pc = "done", !.status = 400, !.conn = "closed"]
                     ELSE [Idle EXCEPT !.pc = "connect", !.name = name]]
  /\ runs' = runs + 1
  /\ UNCHANGED <<bucket, now, ingests, table, seq_id, scanned_at_col, TAVILY_API_KEY,
                 response, once>>

\* lines 166-206: the handler derives the name or returns 400. A new
\* invocation takes the lowest free slot.
Start(i) ==
  /\ inv[i].pc \in {"idle", "done"}
  /\ \A j \in Invs : j < i => inv[j].pc \notin {"idle", "done"}
  /\ runs < MaxRuns
  /\ \E event \in Events(bucket) :
       LET name == EventName(event)
       IN  inv' = [inv EXCEPT ![i] =
                     IF name = NoText
                     THEN [Idle EXCEPT !.pc = "done", !.status = 400]
                     ELSE [Idle EXCEPT !.pc = "connect", !.name = name]]
  /\ runs' = runs + 1
  /\ UNCHANGED <<bucket, now, ingests, table, seq_id, scanned_at_col, TAVILY_API_KEY, response, once>>

\* lines 208-210: get_db_connection and ensure_table_exists; either may
\* raise, which the outer except turns into 500, and finally closes the
\* connection if one was opened
Connect(i) ==
  /\ inv[i].pc = "connect"
  /\ \E outcome \in {"ok", "connect_error", "ddl_error"} :
       inv' = [inv EXCEPT ![i] =
                 IF outcome = "ok"
                 THEN [@ EXCEPT !.pc = "resolve", !.conn = "open", !.tx = "idle"]
                 ELSE IF outcome = "connect_error"
                 THEN Terminal(@)
                 ELSE Terminal([@ EXCEPT !.conn = "open"])]
  /\ UNCHANGED <<bucket, now, ingests, table, seq_id, scanned_at_col, TAVILY_API_KEY, response, runs, once>>

\* lines 213-214: the watermark query and the boundary key; a query that
\* raises is caught inside get_latest_s3_key and leaves the connection's
\* transaction aborted (nothing rolls it back)
Resolve(i) ==
  /\ inv[i].pc = "resolve"
  /\ LET wm == get_latest_s3_key(table, inv[i].name, scanned_at_col)
         last_key == BoundaryKey(inv[i].name, wm)
     IN  inv' = [inv EXCEPT ![i] =
                   [@ EXCEPT !.pc = "list",
                             !.wm = wm,
                             !.last_key = last_key,
                             !.after = last_key,
                             !.tx = IF QueryRaises(scanned_at_col) THEN "failed" ELSE "idle"]]
  /\ UNCHANGED <<bucket, now, ingests, table, seq_id, scanned_at_col, TAVILY_API_KEY, response, runs, once>>

\* fetch_new_files asks for its next page; a listing error leaves the
\* generator and the handler's for loop and ends in the outer except
ListPage(i) ==
  /\ inv[i].pc = "list"
  /\ \E ok \in BOOLEAN :
       LET all == ListAfter(DOMAIN bucket, inv[i].after)
           page == FirstN(all, PageSize)
           yielded == YieldFrom(page, inv[i].last_key)
           truncated == Len(all) > PageSize
       IN  inv' = [inv EXCEPT ![i] =
                     IF ~ok
                     THEN Terminal(@)
                     ELSE [@ EXCEPT !.pc = NextPc(yielded, truncated),
                                    !.page = yielded,
                                    !.truncated = truncated,
                                    !.after = IF page # <<>> THEN page[Len(page)] ELSE @]]
  /\ UNCHANGED <<bucket, now, ingests, table, seq_id, scanned_at_col, TAVILY_API_KEY, response, runs, once>>

\* lines 220-227: get_object, decode and json.loads of the next key; a
\* failure is caught by the per-file except and the loop continues
ReadFile(i) ==
  /\ inv[i].pc = "file"
  /\ \E ok \in BOOLEAN :
       LET key == Head(inv[i].page)
           rest == Tail(inv[i].page)
           data == bucket[key]
       IN  inv' = [inv EXCEPT ![i] =
                     IF ~ok
                     THEN [@ EXCEPT !.pc = NextPc(rest, inv[i].truncated),
                                    !.page = rest,
                                    !.failed = @ \cup {Failure(key, "read", FALSE)}]
                     ELSE IF data = <<>>
                     THEN [@ EXCEPT !.pc = NextPc(rest, inv[i].truncated),
                                    !.page = rest,
                                    !.counted = @ \cup {key},
                                    !.processed_count = @ + 1]
                     ELSE [@ EXCEPT !.pc = "insert",
                                    !.page = rest,
                                    !.key = key,
                                    !.valid = AllStorable(data),
                                    !.recs = data]]
  /\ UNCHANGED <<bucket, now, ingests, table, seq_id, scanned_at_col, TAVILY_API_KEY, response, runs, once>>

\* lines 228-239: insert_into_db of the next record of the file. cur.execute
\* raises when the transaction is already aborted or a NOT NULL column gets
\* NULL; the exception leaves the record loop, the per-file except catches
\* it and the file is not counted. Otherwise the upsert is committed.
InsertRec(i) ==
  /\ inv[i].pc = "insert"
  /\ LET rec == Head(inv[i].recs)
         rest == Tail(inv[i].recs)
         next == NextPc(inv[i].page, inv[i].truncated)
         giveup(why) ==
           [inv[i] EXCEPT !.pc = next, !.recs = <<>>, !.key = NoText, !.valid = FALSE,
                          !.failed = @ \cup {Failure(inv[i].key, why, inv[i].valid)}]
     IN  IF inv[i].tx = "failed"
         THEN /\ inv' = [inv EXCEPT ![i] = giveup("aborted")]
              /\ UNCHANGED <<table, seq_id>>
         ELSE IF NotNullViolation(rec)
         THEN /\ inv' = [inv EXCEPT ![i] = [giveup("notnull") EXCEPT !.tx = "failed"]]
              /\ seq_id' = seq_id + 1
              /\ UNCHANGED table
         ELSE /\ table' = insert_into_db(table, rec, seq_id)
              /\ seq_id' = seq_id + 1
              /\ inv' = [inv EXCEPT ![i] =
                           IF rest # <<>>
                           THEN [@ EXCEPT !.recs = rest, !.tx = "idle",
                                          !.merged = @ \cup {inv[i].key}]
                           ELSE [@ EXCEPT !.pc = next, !.recs = <<>>, !.key = NoText,
                                          !.valid = FALSE, !.tx = "idle",
                                          !.merged = @ \cup {inv[i].key},
                                          !.counted = @ \cup {inv[i].key},
                                          !.processed_count = @ + 1]]
  /\ UNCHANGED <<bucket, now, ingests, scanned_at_col, TAVILY_API_KEY, response, runs, once>>

\* lines 241-247 and 255-257: the loop is over, 200 is returned and the
\* connection is closed
Return(i) ==
  /\ inv[i].pc = "ret"
  /\ inv' = [inv EXCEPT ![i] = [@ EXCEPT !.pc = "done", !.status = 200, !.conn = "closed"]]
  /\ UNCHANGED <<bucket, now, ingests, table, seq_id, scanned_at_col, TAVILY_API_KEY, response, runs, once>>

\* an empty store and an empty table; the table in the database either has
\* the columns ensure_table_exists declares, or it existed before (CREATE
\* TABLE IF NOT EXISTS leaves it as it is) and has, besides the declared
\* columns and constraints, the scanned_at column the watermark query names.
\* Nothing in the loader writes scanned_at, so it is NULL in every row.
Init ==
  /\ bucket = EmptyBucket
  /\ now = 1
  /\ ingests = 0
  /\ table = {}
  /\ seq_id = 1
  /\ scanned_at_col \in BOOLEAN
  /\ inv = [i \in Invs |-> Idle]
  /\ runs = 0
  /\ once = NotLoaded
  /\ TAVILY_API_KEY \in BOOLEAN
  /\ response = NoResponse

Next ==
  \/ Ingest
  \/ Tick
  \/ \E i \in Invs : Start(i)
  \/ \E i \in Invs : Connect(i)
  \/ \E i \in Invs : Resolve(i)
  \/ \E i \in Invs : ListPage(i)
  \/ \E i \in Invs : ReadFile(i)
  \/ \E i \in Invs : InsertRec(i)
  \/ \E i \in Invs : Return(i)

Spec == Init /\ [][Next]_vars

(***************************************************************************)
(* Properties.                                                             *)
(***************************************************************************)
\* the record an invocation is about to hand to insert_into_db
CurRec(i) == Head(inv[i].recs)

\* the step of invocation i is an upsert that is executed and committed
Upsert(i) ==
  /\ InsertRec(i)
  /\ inv[i].tx = "idle"
  /\ ~NotNullViolation(CurRec(i))

\* C1: an upsert on a URL that already has a row leaves that row with the
\* union of its former and the incoming individuals_mentioned, and the union
\* of its former and the incoming keywords_used (so nothing is removed).
C1_UnionOnUpsert ==
  [][\A i \in Invs :
       Upsert(i) =>
         \A r \in table :
           r.url = CurRec(i).url =>
             \E q \in table' :
               /\ q.url = r.url
               /\ Range(q.individuals_mentioned) =
                    Range(r.individuals_mentioned) \cup Range(CurRec(i).individuals_mentioned)
               /\ Range(q.keywords_used) =
                    Range(r.keywords_used) \cup Range(CurRec(i).keywords_used)]_vars

\* C5: no two rows of the table have the same url.
C5_UrlUnique ==
  \A r1 \in table : \A r2 \in table : r1.url = r2.url => r1 = r2

\* C5 witness: two rows, one of them first seen in one version and since
\* re-ingested in another, with both invocations having committed upserts
C5_Witness ==
  /\ Cardinality(table) = 2
  /\ \E r \in table : r.title = "t1" /\ r.content = "c2"
  /\ \A i \in Invs : inv[i].merged # {}

\* the keys invocation i has selected so far
Selected(i) ==
  Range(inv[i].page) \cup inv[i].merged \cup inv[i].counted
    \cup { f.key : f \in inv[i].failed }
    \cup (IF inv[i].key = NoText THEN {} ELSE {inv[i].key})

\* the path under which save_to_s3 stores the batches of an individual
IndividualPrefix(individual) == S3_PREFIX \o safe_individual(individual) \o Slash

\* C6: every key an invocation selects, reads or merges lies under the path
\* segment of the individual the invocation runs for.
C6_PartitionByIndividual ==
  \A i \in Invs :
    \A k \in Selected(i) : startswith(k, IndividualPrefix(inv[i].name))

(***************************************************************************)
(* The Batch Selector on its own: the handler from line 214 on, for a      *)
(* store of batch files and a watermark drawn from all the values          *)
(* get_latest_s3_key's return statement can produce.                       *)
(***************************************************************************)
SelDays == 1..(MaxDay + 1)

\* the file the ingestion stage writes for an individual on a day when the
\* search returns the first result list
BodyOf(d, n) ==
  LET event == CHOOSE e \in IngestEvents : e.name = n
  IN  << process_content(Item("u1", 1, "absent"), d, n, event.keywords) >>

StoreOf(P) ==
  [k \in { save_to_s3_key(p[1], p[2]) : p \in P } |->
     LET p == CHOOSE q \in P : save_to_s3_key(q[1], q[2]) = k
     IN  BodyOf(p[1], p[2])]

SelectInit ==
  /\ \E P \in SUBSET (SelDays \X Names) : bucket = StoreOf(P)
  /\ now = 1
  /\ ingests = 0
  /\ table = {}
  /\ seq_id = 1
  /\ scanned_at_col = TRUE
  /\ \E n \in Names, wm \in {NoText} \cup { DateStr(d) : d \in SelDays } :
       inv = [i \in Invs |->
                IF i = 1
                THEN [Idle EXCEPT !.pc = "list", !.name = n, !.conn = "open",
                                  !.wm = wm,
                                  !.last_key = BoundaryKey(n, wm),
                                  !.after = BoundaryKey(n, wm)]
                ELSE Idle]
  /\ runs = 1
  /\ once = NotLoaded
  /\ TAVILY_API_KEY = TRUE
  /\ response = NoResponse

SelectNext ==
  \/ ListPage(1)
  \/ ReadFile(1)
  \/ InsertRec(1)
  \/ Return(1)

SpecSelect == SelectInit /\ [][SelectNext]_vars

\* the date segment of a batch key
KeyDate(k) == split(k, 47)[3]

\* the batch keys of an individual in the store
KeysOf(individual) ==
  { k \in DOMAIN bucket : startswith(k, IndividualPrefix(individual)) }

Finished(i) == inv[i].pc = "done" /\ inv[i].status = 200

\* C2: with a watermark date resolved, no key of the individual dated on or
\* before the watermark is yielded, and once the selection has run to its
\* end the individual's keys that were yielded are exactly those dated after
\* it (of 20240101, 20240102, 20240103 with watermark 20240102: the third).
C2_SelectsOnlyNewer ==
  \A i \in Invs :
    inv[i].wm # NoText =>
      /\ \A k \in Selected(i) \cap KeysOf(inv[i].name) : StrLess(inv[i].wm, KeyDate(k))
      /\ Finished(i) =>
           \A k \in KeysOf(inv[i].name) :
             StrLess(inv[i].wm, KeyDate(k)) => k \in Selected(i)

\* C7: with no watermark, once the selection has run to its end every batch
\* key of the individual has been yielded (none is skipped), whatever the
\* individual's name.
C7_NoWatermarkSelectsAll ==
  \A i \in Invs :
    (Finished(i) /\ inv[i].wm = NoText) => KeysOf(inv[i].name) \subseteq Selected(i)

(***************************************************************************)
(* The Record Merger on its own: one batch file in the store, loaded by    *)
(* one invocation into an empty table and then by a second invocation.     *)
(***************************************************************************)
MergeItems ==
  { Item("u1", 1, "absent"), Item("u1", 2, "valid"),
    Item("u2", 1, "bad"), Item("", 1, "absent") }

MergeResultLists ==
  { <<a>> : a \in MergeItems } \cup { <<a, b>> : a \in MergeItems, b \in MergeItems }

\* the fields the spec compares two loads by
Proj(tbl) ==
  { [ url |-> r.url, content |-> r.content, score |-> r.score, source |-> r.source,
      individuals_mentioned |-> Range(r.individuals_mentioned),
      keywords_used |-> Range(r.keywords_used) ] : r \in tbl }

\* invocation i got the file's records (it was read; its merge ended or failed)
Loaded(i) ==
  inv[i].counted # {} \/ \E f \in inv[i].failed : f.why # "read"

MergeInit ==
  /\ \E event \in IngestEvents, results \in MergeResultLists :
       bucket = Put(EmptyBucket, save_to_s3_key(1, event.name),
                    [k \in 1..Len(results) |->
                       process_content(results[k], 1, event.name, event.keywords)])
  /\ now = 1
  /\ ingests = 1
  /\ table = {}
  /\ seq_id = 1
  /\ scanned_at_col = TRUE
  /\ \E n \in Names :
       inv = [i \in Invs |->
                IF i = 1 THEN [Idle EXCEPT !.pc = "connect", !.name = n] ELSE Idle]
  /\ runs = 1
  /\ once = NotLoaded
  /\ TAVILY_API_KEY = TRUE
  /\ response = NoResponse

\* the second invocation, for the same name, after the first returned
LoadAgain ==
  /\ runs = 1
  /\ inv[1].pc = "done"
  /\ once' = [rows |-> Proj(table), count |-> Cardinality(table), loaded |-> Loaded(1),
              failed |-> { f.key : f \in inv[1].failed }]
  /\ inv' = [inv EXCEPT ![1] = [Idle EXCEPT !.pc = "connect", !.name = inv[1].name]]
  /\ runs' = 2
  /\ UNCHANGED <<bucket, now, ingests, table, seq_id, scanned_at_col, TAVILY_API_KEY, response>>

MergeNext ==
  \/ Connect(1)
  \/ Resolve(1)
  \/ ListPage(1)
  \/ ReadFile(1)
  \/ InsertRec(1)
  \/ Return(1)
  \/ LoadAgain

SpecMerge == MergeInit /\ [][MergeNext]_vars

\* C4: when a file has been loaded into the empty table and then loaded
\* again, the table holds the same number of rows as after the first load,
\* with the same content, score, source, mention set and keyword set per url.
C4_Idempotent ==
  (runs = 2 /\ inv[1].pc = "done" /\ once.loaded /\ Loaded(1)) =>
    /\ Proj(table) = once.rows
    /\ Cardinality(table) = once.count

\* C4 witness: the second load of a file that holds two versions of one
\* article has ended, and the row shows both
C4_Witness ==
  /\ runs = 2 /\ inv[1].pc = "done" /\ once.loaded /\ inv[1].counted # {}
  /\ \E r \in table : r.title = "t1" /\ r.content = "c2"

(***************************************************************************)
(* Properties of the watermark and of failures.                            *)
(***************************************************************************)
\* watermark a is not after watermark b; no watermark is before every date
WmLeq(a, b) == a = NoText \/ (b # NoText /\ StrLeq(a, b))

\* C3: no step of any load invocation lowers the watermark the resolver
\* computes for an individual: what a later run resolves is never below what
\* an earlier run resolved.
C3_WatermarkMonotone ==
  [][\A n \in Names :
       WmLeq(get_latest_s3_key(table, n, scanned_at_col),
             get_latest_s3_key(table', n, scanned_at_col'))]_vars

\* C3 witness: two invocations for the same individual have both ended with
\* 200 after merging files, and the table holds rows mentioning it
C3_Witness ==
  /\ \A i \in Invs : Finished(i) /\ inv[i].counted # {}
  /\ inv[1].name = inv[2].name
  /\ \E r \in table : Mentions(r, inv[1].name)

\* the date of the greatest searched_at among the rows mentioning the
\* individual, or no watermark when no row mentions it
DateOfMaxSearchedAt(tbl, individual) ==
  LET vals == { r.searched_at : r \in { q \in tbl : Mentions(q, individual) } }
  IN  IF vals = {} THEN NoText ELSE DateStr(MaxOf(vals))

\* C8: the watermark an invocation resolves is the date of the greatest
\* searched_at among the rows mentioning its individual, and it is the
\* 'no prior loads' value only when no row mentions the individual.
C8_ResolverResult ==
  [][\A i \in Invs :
       Resolve(i) => inv'[i].wm = DateOfMaxSearchedAt(table, inv[i].name)]_vars

\* C9: when a record of a file cannot be stored, the invocation goes on with
\* the remaining records of that file, and the file is counted once its last
\* record has been handled.
C9_RecordFailureLocal ==
  [][\A i \in Invs :
       (InsertRec(i) /\ inv[i].tx = "idle" /\ NotNullViolation(CurRec(i))) =>
         /\ inv'[i].recs = Tail(inv[i].recs)
         /\ Tail(inv[i].recs) = <<>> => inv[i].key \in inv'[i].counted]_vars

\* C10: in an invocation whose watermark query did not fail, every file that
\* failed was itself unreadable or held a record that cannot be stored: no
\* file that is itself valid goes unmerged because another file failed.
C10_FileFailureLocal ==
  \A i \in Invs :
    scanned_at_col => \A f \in inv[i].failed : ~f.valid


(***************************************************************************)
(* Retry: two batch files in the store, loaded by one invocation and then  *)
(* by the next invocation for the same name.                               *)
(***************************************************************************)
RetryResultLists ==
  { << Item("u1", 1, "absent") >>, << Item("", 1, "absent") >>,
    << Item("u2", 2, "valid"), Item("u1", 2, "absent") >> }

RetryInit ==
  /\ \E e1 \in IngestEvents, e2 \in IngestEvents,
        r1 \in RetryResultLists, r2 \in RetryResultLists :
       bucket = Put(Put(EmptyBucket, save_to_s3_key(1, e1.name),
                        [k \in 1..Len(r1) |->
                           process_content(r1[k], 1, e1.name, e1.keywords)]),
                    save_to_s3_key(2, e2.name),
                    [k \in 1..Len(r2) |->
                       process_content(r2[k], 2, e2.name, e2.keywords)])
  /\ now = 2
  /\ ingests = 2
  /\ table = {}
  /\ seq_id = 1
  /\ scanned_at_col \in BOOLEAN
  /\ \E n \in Names :
       inv = [i \in Invs |->
                IF i = 1 THEN [Idle EXCEPT !.pc = "connect", !.name = n] ELSE Idle]
  /\ runs = 1
  /\ once = NotLoaded
  /\ TAVILY_API_KEY = TRUE
  /\ response = NoResponse

SpecRetry == RetryInit /\ [][MergeNext]_vars

\* the invocation was able to read every file it selected
NoReadFailure(i) == \A f \in inv[i].failed : f.why # "read"

\* C11: once the next invocation for the same individual has returned,
\* having read every file it selected, every file that failed in the
\* invocation before it has been selected again, and each of them whose
\* records can all be stored has been merged and counted: no failed file
\* stays unloaded.
C11_FailedFilesRetried ==
  (runs = 2 /\ Finished(1) /\ NoReadFailure(1)) =>
    \A k \in once.failed :
      /\ k \in Selected(1)
      /\ AllStorable(bucket[k]) => k \in inv[1].counted

\* C12: an invocation that has ended with 500 has merged no batch file: the
\* error result arises only before any file is processed.
C12_ErrorMeansNothingMerged ==
  \A i \in Invs : inv[i].status = 500 => inv[i].merged = {}

(***************************************************************************)
(* Overlap: two invocations for the same name run concurrently over the    *)
(* same two batch files and an empty table.                                *)
(***************************************************************************)
OverlapInit ==
  /\ \E e1 \in IngestEvents, e2 \in IngestEvents,
        r1 \in RetryResultLists, r2 \in RetryResultLists :
       bucket = Put(Put(EmptyBucket, save_to_s3_key(1, e1.name),
                        [k \in 1..Len(r1) |->
                           process_content(r1[k], 1, e1.name, e1.keywords)]),
                    save_to_s3_key(2, e2.name),
                    [k \in 1..Len(r2) |->
                       process_content(r2[k], 2, e2.name, e2.keywords)])
  /\ now = 2
  /\ ingests = 2
  /\ table = {}
  /\ seq_id = 1
  /\ scanned_at_col \in BOOLEAN
  /\ \E n \in Names :
       inv = [i \in Invs |-> [Idle EXCEPT !.pc = "connect", !.name = n]]
  /\ runs = 2
  /\ once = NotLoaded
  /\ TAVILY_API_KEY = TRUE
  /\ response = NoResponse

OverlapNext ==
  \/ \E i \in Invs : Connect(i)
  \/ \E i \in Invs : Resolve(i)
  \/ \E i \in Invs : ListPage(i)
  \/ \E i \in Invs : ReadFile(i)
  \/ \E i \in Invs : InsertRec(i)
  \/ \E i \in Invs : Return(i)

SpecOverlap == OverlapInit /\ [][OverlapNext]_vars

\* lines 228-232 for one file on a connection that is used by nobody else:
\* the records are upserted in order until cur.execute raises
RECURSIVE MergeRecords(_, _)
MergeRecords(st, recs) ==
  IF recs = <<>> \/ st.tx = "failed" THEN st
  ELSE IF NotNullViolation(Head(recs))
  THEN [st EXCEPT !.tx = "failed", !.id = @ + 1]
  ELSE MergeRecords([st EXCEPT !.tbl = insert_into_db(@, Head(recs), st.id),
                               !.id = @ + 1],
                    Tail(recs))

\* lines 219-239 for the keys in the order fetch_new_files yields them
RECURSIVE MergeFiles(_, _, _)
MergeFiles(st, bkt, keys) ==
  IF keys = <<>> THEN st
  ELSE MergeFiles(MergeRecords(st, bkt[Head(keys)]), bkt, Tail(keys))

\* the table after a single invocation for name, alone, has gone through
\* the store bkt from an empty table, with every listing and read succeeding
RunAlone(bkt, name, hasCol) ==
  LET last_key == BoundaryKey(name, get_latest_s3_key({}, name, hasCol))
      keys == YieldFrom(ListAfter(DOMAIN bkt, last_key), last_key)
  IN  MergeFiles([tbl |-> {}, id |-> 1,
                  tx |-> IF QueryRaises(hasCol) THEN "failed" ELSE "idle"],
                 bkt, keys).tbl

\* the rows of a table without their id
Columns(tbl) ==
  { [ url |-> r.url, title |-> r.title, content |-> r.content, source |-> r.source,
      score |-> r.score, published_date |-> r.published_date,
      searched_at |-> r.searched_at, scanned_at |-> r.scanned_at,
      individuals_mentioned |-> r.individuals_mentioned,
      keywords_used |-> r.keywords_used ] : r \in tbl }

\* both invocations have returned 200 and read every file they selected
BothFinished ==
  \A i \in Invs : Finished(i) /\ NoReadFailure(i)

C14_ConnectionReleased ==
  \A i \in Invs :
    /\ inv[i].pc = "done" => inv[i].conn # "open"
    /\ inv[i].pc \in {"resolve", "list", "file", "insert", "ret"} => inv[i].conn = "open"

\* C14 witness: one invocation ended with 500 after it had merged a file,
\* another returned 200 with a failed file, and both connections are closed
C14_Witness ==
  /\ \E i \in Invs :
       /\ inv[i].pc = "done" /\ inv[i].status = 500
       /\ inv[i].merged # {} /\ inv[i].conn = "closed"
  /\ \E i \in Invs :
       /\ Finished(i) /\ inv[i].failed # {} /\ inv[i].conn = "closed"

\* C15: in an invocation whose watermark query raised, the resolver has
\* returned 'no watermark' and merging goes on: every file the invocation
\* selected and read whose records can all be stored is merged, so a file
\* fails only if it could not be read or holds an unstorable record.
C15_QueryFailureDegrades ==
  \A i \in Invs :
    (QueryRaises(scanned_at_col) /\ inv[i].last_key # NoText) =>
      /\ inv[i].wm = NoText
      /\ \A f \in inv[i].failed : f.why # "read" => ~f.valid

\* C16: no record of a batch file has a null published_date (0 stands for
\* None): process_content, which always gets a searched_at, falls back to
\* it when the provider's date is absent or does not parse.
C16_PublishedDateNeverNull ==
  \A k \in DOMAIN bucket :
    \A j \in DOMAIN bucket[k] : bucket[k][j].published_date # 0

\* C17: a load invocation that has ended without a name has returned 400
\* and has opened no connection, listed and read nothing and merged nothing;
\* an ingestion invocation whose event had no name has returned 400 and has
\* neither searched nor put a batch file.
C17_ConfigErrorsFailFast ==
  /\ \A i \in Invs :
       (inv[i].pc = "done" /\ inv[i].name = NoText) =>
         /\ inv[i].status = 400
         /\ inv[i].conn = "none"
         /\ inv[i].after = NoText /\ inv[i].page = <<>>
         /\ inv[i].merged = {} /\ inv[i].counted = {} /\ inv[i].failed = {}
  /\ (response.status # 0 /\ ~response.named) =>
       /\ response.status = 400
       /\ ~response.searched /\ ~response.wrote

\* C17 witness: a load invocation and the last ingestion invocation have
\* both returned 400, with a batch file in the store and a row in the table
C17_Witness ==
  /\ \E i \in Invs : inv[i].pc = "done" /\ inv[i].status = 400
  /\ response.status = 400 /\ ~response.named
  /\ bucket # EmptyBucket /\ table # {}

\* C18: an upsert on a url that already has a row adds and removes no row,
\* leaves the row's id, title and published_date (and the scanned_at the
\* statement does not name) as they were, and leaves every row of another
\* url untouched.
C18_UpdateFrame ==
  [][\A i \in Invs :
       (Upsert(i) /\ \E r \in table : r.url = CurRec(i).url) =>
         /\ Cardinality(table') = Cardinality(table)
         /\ \A r \in table :
              IF r.url = CurRec(i).url
              THEN \E q \in table' :
                     /\ q.url = r.url /\ q.id = r.id /\ q.title = r.title
                     /\ q.published_date = r.published_date
                     /\ q.scanned_at = r.scanned_at
              ELSE r \in table']_vars

\* C18 witness: a row first inserted from the later version of an article
\* has since been updated from the earlier one, next to a row of another url
C18_Witness ==
  /\ Cardinality(table) = 2
  /\ \E r \in table : r.title = "t2" /\ r.content = "c1" /\ r.id = 1

(***************************************************************************)
(* Names: an ingestion invocation for a name drawn from the short strings  *)
(* over two letters, space, hyphen and underscore, then load invocations   *)
(* triggered by the batch file it wrote.                                   *)
(***************************************************************************)
MaxNameLen == 3

\* 'A', 'z', space, '-' and '_'
NameChars == {65, 122, 32, 45, 95}

RECURSIVE TextsUpTo(_)
TextsUpTo(n) ==
  IF n = 0 THEN {<<>>}
  ELSE LET shorter == TextsUpTo(n - 1)
       IN  shorter \cup { Append(t, c) : t \in shorter, c \in NameChars }

NameEvents ==
  { [name |-> n, keywords |-> <<"graft">>] : n \in TextsUpTo(MaxNameLen) }

\* the first ingestion invocation
IngestName ==
  /\ bucket = EmptyBucket
  /\ IngestFrom(NameEvents)

\* a load invocation triggered by the creation of a batch file
StartOnObjectCreated(i) ==
  /\ Start(i)
  /\ \E k \in DOMAIN bucket :
       inv'[i].name = EventName(Event(NoText, NoText, NoText, k))

NamesNext ==
  \/ IngestName
  \/ Tick
  \/ \E i \in Invs : StartOnObjectCreated(i)

SpecNames == Init /\ [][NamesNext]_vars

\* C19: the name a load invocation triggered by a batch file runs for is the
\* name the ingestion stage stored in individuals_mentioned of the records
\* of that file.
C19_NameRoundTrip ==
  \A i \in Invs :
    inv[i].pc # "idle" =>
      \A k \in DOMAIN bucket :
        \A j \in DOMAIN bucket[k] :
          bucket[k][j].individuals_mentioned = << inv[i].name >>

====
